---- MODULE Spec2Model ----
(***************************************************************************)
(* Model of fusecore/_modloader.py: ModEntry.get_filetree_time_hash and    *)
(* ModLoaderSubsystem (scan_for_mods, read_mod_entries,                    *)
(* _load_folder_as_mod and its helpers, on_app_running, add_scan_path),     *)
(* together with the part of the file system and of the interpreter        *)
(* (sys.path, sys.modules) they read and write.                            *)
(*                                                                         *)
(* One scan cycle (scan_for_mods, which ends by calling read_mod_entries)  *)
(* is one action: the loader is single threaded and a cycle runs to        *)
(* completion.  The iteration order of the set _mod_entries is chosen      *)
(* nondeterministically.  An exception raised while an entry is processed  *)
(* is not caught anywhere in the loader, so it ends the cycle.             *)
(***************************************************************************)
EXTENDS Integers, Sequences, FiniteSets, TLC

\* ------------------------------------------------------------------ bounds
\* modification times are drawn from 1..MaxMTime (0 stands for "no file")
MaxMTime == 2
\* number of changes the environment makes to the file system
MaxEnv == 2
\* number of calls of add_scan_path
MaxAdds == 2

\* ------------------------------------------------------------- file system
\* The immediate children of the scan root python_directory_user, and one
\* child ("c") of another directory ("extra") that may be added to the scan
\* list.
Paths == {"a", "b", "c", "x.py", "k.bsmod", "z.zip", "t.rar", "n.txt"}

\* a file further down: the entry script in the package "a"
Nested == {"a/main.py"}

\* The directory "extra" has a second path, "abs" (the absolute path, where
\* "extra" is the relative one; or a symbolic link): what os.listdir("abs")
\* lists is the child "c" of "extra", under the path "abs/c".
Aliases == {"abs/c"}

\* the child of a root that a path leads to
Real(p) == IF p = "abs/c" THEN "c" ELSE p

\* the directory each child is in
RootOf(p) ==
  CASE p = "c" -> "extra"
    [] p = "abs/c" -> "abs"
    [] p = "a/main.py" -> "a"
    [] OTHER -> "user"

\* Path.suffix of each child
Suffix(p) ==
  CASE p \in {"x.py", "a/main.py"} -> ".py"
    [] p = "k.bsmod" -> ".bsmod"
    [] p = "z.zip" -> ".zip"
    [] p = "t.rar" -> ".rar"
    [] p = "n.txt" -> ".txt"
    [] OTHER -> ""

\* The files a package directory may hold: the manifest, the entry script the
\* manifest names ("main.py"), one texture in the directory the manifest
\* names for textures ("tex") and one sound in the directory it names for
\* audio ("snd").  The directory it names for meshes is not there.
FNames == {"main.py", "manifest.json", "snd/beep.ogg", "tex/icon.png"}

MTimes == 1..MaxMTime

NoFiles == [f \in FNames |-> 0]

\* what manifest.json holds: not JSON at all ("bad"), JSON that is not an
\* object with the keys the loader reads ("nokeys"), or a complete manifest
ManifestKinds == {"bad", "nokeys", "ok"}
\* what running the entry script does: returns, or raises
ScriptKinds == {"good", "raises"}

Absent == [shape |-> "absent", mtime |-> 0, files |-> NoFiles,
           manifest |-> "none", script |-> "none"]

File(m) == [shape |-> "file", mtime |-> m, files |-> NoFiles,
            manifest |-> "none", script |-> "none"]

Dir(fl, mk, sk) == [shape |-> "dir", mtime |-> 0, files |-> fl,
                    manifest |-> mk, script |-> sk]

\* ---------------------------------------------------------------- entries
ModEntryType == {"PLUGIN", "FOLDER", "PACKED", "COMPRESSED"}

ModEntry(p, t) == [path |-> p, type |-> t]

Entries == [path : Paths, type : ModEntryType]

\* ----------------------------------------------------------------- digest
\* f"{n}".encode(): the decimal digits of n, most significant first
RECURSIVE Decimal(_)
Decimal(n) == IF n < 10 THEN <<n>> ELSE Decimal(n \div 10) \o <<n % 10>>

\* hashlib.sha1 is taken to be collision free: the hex digest stands for the
\* bytes that were fed to the hasher.  It is never the empty string.
HexDigest(bytes) == [set |-> TRUE, bytes |-> bytes]

\* the "" that setdefault records for an entry seen for the first time
EmptyHash == [set |-> FALSE, bytes |-> <<>>]

\* os.walk(path) with sorted(fl) in each directory: the root's files in
\* sorted order, then those of the directories "snd" and "tex"
WalkOrder == <<"main.py", "manifest.json", "snd/beep.ogg", "tex/icon.png">>

\* the files of the walk that are in a directory below the root
Below == {"snd/beep.ogg", "tex/icon.png"}

\* (variant: os.listdir in place of os.walk, the root's files only)
RECURSIVE WalkBytes_TopOnly(_, _)
WalkBytes_TopOnly(fl, i) ==
  IF i > Len(WalkOrder) \/ WalkOrder[i] \in Below THEN <<>>
  ELSE (IF fl[WalkOrder[i]] = 0 THEN <<>> ELSE Decimal(fl[WalkOrder[i]]))
       \o WalkBytes_TopOnly(fl, i + 1)

RECURSIVE WalkBytes(_, _)
WalkBytes(fl, i) ==
  IF i > Len(WalkOrder) THEN <<>>
  ELSE (IF fl[WalkOrder[i]] = 0 THEN <<>> ELSE Decimal(fl[WalkOrder[i]]))
       \o WalkBytes(fl, i + 1)

\* (variant: the modification time of the first file only)
HashOfNode_FirstFile(node) ==
  IF node.shape = "dir"
  THEN HexDigest(IF \E i \in 1..Len(WalkOrder) : node.files[WalkOrder[i]] > 0
                 THEN Decimal(node.files[WalkOrder[
                        CHOOSE i \in 1..Len(WalkOrder) :
                          /\ node.files[WalkOrder[i]] > 0
                          /\ \A j \in 1..(i - 1) : node.files[WalkOrder[j]] = 0]])
                 ELSE <<>>)
  ELSE HexDigest(Decimal(node.mtime))

\* get_filetree_time_hash on what is found at the entry's path
HashOfNode(node) ==
  IF node.shape = "dir" THEN HexDigest(WalkBytes(node.files, 1))
  ELSE HexDigest(Decimal(node.mtime))

VARIABLES
  fs,              \* the file system: what is at each path
  copy_fails,      \* whether shutil.copy into the audio resource folder
                   \* fails at present (the file there is in use, ...)
  resources,       \* the files in the resource folders of the mods, and
                   \* the package each was copied from
  env_steps,       \* changes made by the environment so far
  mod_entries,     \* ModLoaderSubsystem._mod_entries
  mod_entry_hashes,\* ModLoaderSubsystem._mod_entry_hashes
  sys_path,        \* what the loader has appended to sys.path
  sys_modules,     \* sys.modules: module name -> folder it was loaded from
  paths_to_scan,   \* ModLoaderSubsystem.paths_to_scan
  scan_timer,      \* ModLoaderSubsystem._scan_timer
  initial_scan,    \* how the scan of on_app_running ended (history)
  added,           \* the calls of add_scan_path and how they ended (history)
  ever_loaded,     \* the entries some cycle has loaded to the end (history)
  last,            \* what the last scan cycle did (history)
  ever_selected,   \* the entries some cycle has selected (history)
  hashed,          \* entry -> what its digest was last computed on, and
                   \* the digest (history)
  digests,         \* path -> the digest computed by HashAll
  calc             \* a function of the loader called on its own: what it
                   \* was given and what it left (<<>> before the call)

vars == <<fs, copy_fails, resources, env_steps, mod_entries, mod_entry_hashes,
          sys_path, sys_modules, paths_to_scan, scan_timer, initial_scan,
          added, ever_loaded, last, ever_selected, hashed, digests,
          calc>>

\* what the host and the callers of the loader set, cycles leave alone
host == <<paths_to_scan, initial_scan, added>>

\* what is at a path: for a child of a root what fs holds for it, for the
\* entry script of "a" the file that the directory "a" holds
Node(p) ==
  IF p \in Nested
  THEN IF fs["a"].shape = "dir" /\ fs["a"].files["main.py"] > 0
       THEN File(fs["a"].files["main.py"]) ELSE Absent
  ELSE fs[Real(p)]

\* (variant: a hasher that is not fresh, it still holds what the digest of
\* the catalog row was made of)
get_filetree_time_hash_Stale(e) ==
  LET node == Node(e.path)
      old == IF e \in DOMAIN mod_entry_hashes
             THEN mod_entry_hashes[e].bytes ELSE <<>>
  IN  HexDigest(old \o HashOfNode(node).bytes)

get_filetree_time_hash(e) == HashOfNode(Node(e.path))

Exists(p) == Node(p).shape # "absent"
IsDir(p) == Node(p).shape = "dir"
IsFile(p) == Node(p).shape = "file"

RowOf(hashes, e) == IF e \in DOMAIN hashes THEN hashes[e] ELSE EmptyHash
Put(f, k, v) == (k :> v) @@ f

\* ------------------------------------------------------- scan_for_mods
\* (variant: the suffix is looked at first, whatever is at the path)
Classify_BySuffix(p) ==
  IF ~Exists(p) THEN {}
  ELSE CASE Suffix(p) = ".py" -> {ModEntry(p, "PLUGIN")}
         [] Suffix(p) = ".bsmod" -> {ModEntry(p, "PACKED")}
         [] Suffix(p) \in {".zip", ".rar"} -> {ModEntry(p, "COMPRESSED")}
         [] OTHER -> IF IsDir(p) THEN {ModEntry(p, "FOLDER")} ELSE {}

\* the entry scan_for_mods makes of a child of the root (a set: empty for a
\* child that gets none)
Classify(p) ==
  IF IsDir(p) THEN {ModEntry(p, "FOLDER")}
  ELSE IF IsFile(p) THEN
    CASE Suffix(p) = ".py" -> {ModEntry(p, "PLUGIN")}
      [] Suffix(p) = ".bsmod" -> {ModEntry(p, "PACKED")}
      [] Suffix(p) \in {".zip", ".rar"} -> {ModEntry(p, "COMPRESSED")}
      [] OTHER -> {}
  ELSE {}

\* the directories outside the mods the model knows, and what is there
ScanPathArgs == {"user", "extra", "abs", "missing", "notes.txt"}
PathKind(d) ==
  CASE d \in {"user", "extra", "abs"} -> "dir"
    [] d = "notes.txt" -> "file"
    [] OTHER -> "absent"

Range(q) == {q[i] : i \in DOMAIN q}

\* lines 141-176: the entries of the children of the roots in the scan list
\* that are directories
Discovered ==
  UNION {Classify(p) : p \in {c \in Paths \cup Nested \cup Aliases :
                                 /\ RootOf(c) \in Range(paths_to_scan)
                                 /\ PathKind(RootOf(c)) = "dir"}}

\* ------------------------------------------------- _load_folder_as_mod
Ev(op, at) == [op |-> op, at |-> at]

\* the manifests that have every key: "ok", "other" (as "ok", of another
\* author) and "notex" (as "ok", its textures are said to be in a directory
\* that is not there)
Complete == {"ok", "other", "notex"}

\* _get_manifest_data: what json.loads returns, or None when manifest.json
\* is missing or is not JSON (the JSONDecodeError is caught and logged)
get_manifest_data(p) ==
  IF /\ Node(p).files["manifest.json"] > 0
     /\ Node(p).manifest \in Complete \cup {"nokeys"}
  THEN Node(p).manifest ELSE "None"

\* the name and the author a complete manifest gives
ManifestName == <<"M", "o", "d">>
ManifestAuthor == <<"m", "e">>
OtherAuthor == <<"y", "o", "u">>

\* lines 334: the name and the author in the manifest of package p
metadata(p) ==
  [name |-> ManifestName,
   author |-> IF Node(p).manifest = "other" THEN OtherAuthor
              ELSE ManifestAuthor]

\* lines 238-249: whether the source directory the manifest of p names for
\* the file f exists
source_exists(p, f) == ~(f = "tex/icon.png" /\ Node(p).manifest = "notex")

\* hashlib.sha256, taken to be collision free
Sha256(bytes) == [sha256 |-> bytes]

\* _generate_mod_name_hash: the hash of f"{n}&{a}"
generate_mod_name_hash(n, a) == Sha256(n \o <<"&">> \o a)

HasScript(p) == IsDir(p) /\ Node(p).files["main.py"] > 0

\* the path finder: the first folder of spath that holds main.py
RECURSIVE FindMain(_, _)
FindMain(spath, i) ==
  IF i > Len(spath) THEN "?"
  ELSE IF HasScript(spath[i]) THEN spath[i]
  ELSE FindMain(spath, i + 1)

\* running the script found for module "main": the events, and whether it
\* raised
ExecMain(spath) ==
  LET origin == FindMain(spath, 1)
  IN  [events |-> <<Ev("exec", origin)>>,
       raised |-> (origin = "?" \/ Node(origin).script = "raises"),
       origin |-> origin]

\* importlib.import_module("main"): the cached module when sys.modules has
\* one, else the script is found on sys.path and run; a script that raises
\* leaves no module behind
import_module(spath, smods) ==
  IF "main" \in DOMAIN smods
  THEN [smods |-> smods, events |-> <<>>, raised |-> FALSE]
  ELSE LET x == ExecMain(spath)
       IN  [smods |-> IF x.raised THEN smods ELSE Put(smods, "main", x.origin),
            events |-> x.events, raised |-> x.raised]

\* importlib.reload(module): finds the module again and runs its script again
reload(spath, smods) ==
  LET x == ExecMain(spath)
  IN  [smods |-> IF x.origin = "?" THEN smods ELSE Put(smods, "main", x.origin),
       events |-> x.events, raised |-> x.raised]

\* lines 281-284: import_module on the first update, and
\* reload(import_module(...)) on the later ones
LoadCode(spath, smods, first_update) ==
  LET i == import_module(spath, smods)
      ie == <<Ev("import", "main")>> \o i.events
  IN  IF first_update \/ i.raised
      THEN [smods |-> i.smods, events |-> ie, raised |-> i.raised]
      ELSE LET r == reload(spath, i.smods)
           IN  [smods |-> r.smods,
                events |-> ie \o <<Ev("reload", "main")>> \o r.events,
                raised |-> r.raised]

\* (variant: a file that is in the destination already is left as it is)
migrate_file_KeepFirst(m, p, f, to, fails) ==
  IF m.raised \/ Node(p).files[f] = 0 \/ ~source_exists(p, f) THEN m
  ELSE IF fails THEN [m EXCEPT !.raised = TRUE]
  ELSE [m EXCEPT !.res = @ @@ ([folder |-> to, file |-> f] :> p),
                 !.events = Append(@, Ev("copy", f))]

\* One call of _migrate_files, for the source directory of package p that
\* holds the file f: a source that does not exist is passed over; else the
\* file, which is of an allowed type, is copied to the folder named by the
\* hash, over the file of that name that may be there.  A copy that fails
\* raises; what was copied before stays.  The resource folders record, for
\* each file, the package it was copied from.
migrate_file(m, p, f, to, fails) ==
  IF m.raised \/ Node(p).files[f] = 0 \/ ~source_exists(p, f) THEN m
  ELSE IF fails THEN [m EXCEPT !.raised = TRUE]
  ELSE [m EXCEPT !.res = Put(@, [folder |-> to, file |-> f], p),
                 !.events = Append(@, Ev("copy", f))]

\* (variant: the destination folder is emptied first, so that it mirrors the
\* sources)
migrate_files_Mirror(res, p, to) ==
  migrate_file(
    migrate_file([res |-> [k \in {x \in DOMAIN res : x.folder # to} |-> res[k]],
                  events |-> <<Ev("migrate", p)>>, raised |-> FALSE],
                 p, "tex/icon.png", to, FALSE),
    p, "snd/beep.ogg", to, copy_fails)

\* lines 253-269: the textures, then the audio, then the meshes (whose
\* source directory is not there)
migrate_files(res, p, to) ==
  migrate_file(
    migrate_file([res |-> res, events |-> <<Ev("migrate", p)>>,
                  raised |-> FALSE],
                 p, "tex/icon.png", to, FALSE),
    p, "snd/beep.ogg", to, copy_fails)

Result(spath, smods, res, events, outcome) ==
  [spath |-> spath, smods |-> smods, res |-> res, events |-> events,
   outcome |-> outcome]

\* (variant: the entry script is imported first, the assets are migrated
\* after it)
load_folder_as_mod_CodeFirst(spath, smods, res, p, first_update) ==
  IF ~IsDir(p) THEN Result(spath, smods, res, <<>>, "raised")
  ELSE IF get_manifest_data(p) = "None"
  THEN Result(spath, smods, res, <<>>, "nomanifest")
  ELSE IF get_manifest_data(p) = "nokeys"
  THEN Result(spath, smods, res, <<>>, "raised")
  ELSE
    LET hashname == generate_mod_name_hash(metadata(p).name,
                                           metadata(p).author)
        state == IF first_update THEN "loaded" ELSE "reloaded"
        sp == IF HasScript(p) THEN Append(spath, p) ELSE spath
        c == IF HasScript(p) THEN LoadCode(sp, smods, first_update)
             ELSE [smods |-> smods, events |-> <<>>, raised |-> FALSE]
        m == migrate_files(res, p, hashname)
    IN  IF c.raised THEN Result(sp, c.smods, res, c.events, "raised")
        ELSE IF m.raised
        THEN Result(sp, c.smods, m.res, c.events \o m.events, "raised")
        ELSE Result(sp, c.smods, m.res,
                    c.events \o m.events \o <<Ev("notify", state)>>, state)

\* lines 286-296: the notification, when the import or reload that left c has
\* not raised
notify_after_code(sp, m, state, c) ==
  IF c.raised
  THEN Result(sp, c.smods, m.res, m.events \o c.events, "raised")
  ELSE Result(sp, c.smods, m.res,
              m.events \o c.events \o <<Ev("notify", state)>>, state)

\* lines 271-296: what _load_folder_as_mod does when the migrations have left
\* m: with an entry script, the folder is put on sys.path and the script is
\* imported or reloaded; then the user is notified
load_after_migration(spath, smods, p, first_update, m) ==
  LET state == IF first_update THEN "loaded" ELSE "reloaded"
  IN  IF m.raised THEN Result(spath, smods, m.res, m.events, "raised")
      ELSE IF ~HasScript(p)
      THEN Result(spath, smods, m.res,
                  m.events \o <<Ev("notify", state)>>, state)
      ELSE notify_after_code(Append(spath, p), m, state,
                             LoadCode(Append(spath, p), smods, first_update))

\* _load_folder_as_mod: the manifest is read, the assets are migrated, the
\* entry script is imported or reloaded, the user is notified
load_folder_as_mod(spath, smods, res, p, first_update) ==
  IF ~IsDir(p) THEN Result(spath, smods, res, <<>>, "raised")
  ELSE IF get_manifest_data(p) = "None"
  THEN Result(spath, smods, res, <<>>, "nomanifest")
  \* lines 235-248: the look up of a key that is not there raises
  ELSE IF get_manifest_data(p) = "nokeys"
  THEN Result(spath, smods, res, <<>>, "raised")
  ELSE
    load_after_migration(
      spath, smods, p, first_update,
      migrate_files(res, p, generate_mod_name_hash(metadata(p).name,
                                                   metadata(p).author)))

\* ----------------------------------------------------- read_mod_entries
\* (variant: updateable entries are processed in every cycle)
ShouldProcess_Always(type, lasthash, newhash) ==
  type \in {"PLUGIN", "FOLDER"} \/ ~lasthash.set

\* (variant: every entry is processed whenever its digest has changed)
ShouldProcess_AllUpdateable(type, lasthash, newhash) ==
  lasthash # newhash

\* (variant: plugins are taken for non-updateable)
ShouldProcess_FolderOnly(type, lasthash, newhash) ==
  LET first_update == ~lasthash.set
      updateable == type \in {"FOLDER"}
  IN  (lasthash # newhash /\ updateable) \/ (~updateable /\ first_update)

\* the condition of lines 200-204
ShouldProcess(type, lasthash, newhash) ==
  LET first_update == ~lasthash.set
      updateable == type \in {"PLUGIN", "FOLDER"}
  IN  (lasthash # newhash /\ updateable) \/ (~updateable /\ first_update)

\* the state a cycle works on
CycleState(entries, hashes, spath, smods, res) ==
  [entries |-> entries, hashes |-> hashes, spath |-> spath, smods |-> smods,
   res |-> res, log |-> <<>>, dropped |-> {}, raised |-> FALSE,
   reads |-> <<>>]

LogRec(lasthash, newhash, selected, outcome, events) ==
  [lasthash |-> lasthash, newhash |-> newhash, selected |-> selected,
   outcome |-> outcome, events |-> events]

\* _load_file_as_plugin has no body
load_file_as_plugin(st, p) == st

\* (variant: the packed mod is put on the search path)
load_compressed_mod_file_Unpacks(st, p) == [st EXCEPT !.spath = Append(@, p)]

\* _load_compressed_mod_file has no body
load_compressed_mod_file(st, p) == st

\* lines 205-214 for a Folder entry: the digest is recorded, and the entry is
\* handed to _load_folder_as_mod, which left r
FolderRead(st, e, lasthash, newhash, r) ==
  [st EXCEPT
     !.hashes = Put(@, e, newhash),
     !.spath = r.spath,
     !.smods = r.smods,
     !.res = r.res,
     !.raised = (r.outcome = "raised"),
     !.log = Put(@, e, LogRec(lasthash, newhash, TRUE, r.outcome, r.events))]

\* one iteration of the loop of read_mod_entries, lines 187-214
ReadOne(st, e) ==
  IF ~Exists(e.path)
  THEN [st EXCEPT !.entries = @ \ {e}, !.dropped = @ \cup {e}]
  ELSE
    LET lasthash == RowOf(st.hashes, e)
        first_update == ~lasthash.set
        newhash == get_filetree_time_hash(e)
    IN  IF ~ShouldProcess(e.type, lasthash, newhash)
        THEN [st EXCEPT
                !.hashes = Put(@, e, lasthash),
                !.log = Put(@, e, LogRec(lasthash, newhash, FALSE, "none", <<>>))]
        ELSE IF e.type = "FOLDER"
        THEN FolderRead(st, e, lasthash, newhash,
                        load_folder_as_mod(st.spath, st.smods, st.res, e.path,
                                           first_update))
        \* COMPRESSED matches no case
        ELSE LET s2 == CASE e.type = "PLUGIN" -> load_file_as_plugin(st, e.path)
                         [] e.type = "PACKED" ->
                              load_compressed_mod_file(st, e.path)
                         [] OTHER -> st
             IN  [s2 EXCEPT
                    !.hashes = Put(@, e, newhash),
                    !.log = Put(@, e, LogRec(lasthash, newhash, TRUE, "stub",
                                             <<>>))]

\* the iterations of the loop are counted, for each entry
Counted(st, e) ==
  [st EXCEPT !.reads = Put(@, e, IF e \in DOMAIN @ THEN @[e] + 1 ELSE 1)]

\* (variant: the entries are kept in a list, which holds an entry once for
\* each time its root is in the scan list)
Orders_PerListing(S) ==
  LET Perms(T) == {o \in [1..Cardinality(T) -> T] :
                     \A i, j \in 1..Cardinality(T) : i # j => o[i] # o[j]}
      again == {e \in S : \E i, j \in DOMAIN paths_to_scan :
                  i # j /\ paths_to_scan[i] = RootOf(e.path)
                        /\ paths_to_scan[j] = RootOf(e.path)}
  IN  {o \o o2 : o \in Perms(S), o2 \in Perms(again)}

\* the orders a set may be iterated in
Orders(S) ==
  {o \in [1..Cardinality(S) -> S] :
     \A i, j \in 1..Cardinality(S) : i # j => o[i] # o[j]}

\* the loop of read_mod_entries over a copy of the set, taken in the order
\* given; an exception ends the loop (the state each iteration leaves is
\* computed once, and the rest of the loop goes on from it)
RECURSIVE read_mod_entries(_, _, _)
read_mod_entries(st, order, i) ==
  IF i > Len(order) \/ st.raised THEN st
  ELSE CHOOSE end \in {read_mod_entries(next, order, i + 1) :
                          next \in {Counted(ReadOne(st, order[i]), order[i])}} :
         TRUE

\* the entries of a set that read_mod_entries would select in the present
\* state of the file system and of the catalog
Due(entries) ==
  {e \in entries : Exists(e.path) /\
      ShouldProcess(e.type, RowOf(mod_entry_hashes, e), get_filetree_time_hash(e))}

\* The history of the last cycle, kept until the file system or the scan list
\* changes: what the loop did with each entry it reached (log), the entries
\* it dropped, how often it came to each entry (reads), whether the cycle
\* raised, the entries that were due when it began, the catalog as
\* it was then (before), and, when the cycle before also ran on this state of
\* the file system (again), the events of the entries that one loaded (prev).
NoCycle == [ran |-> FALSE, log |-> <<>>, dropped |-> {}, raised |-> FALSE,
            due |-> {}, before |-> <<>>, again |-> FALSE, prev |-> <<>>,
            reads |-> <<>>]

\* the entries a cycle selected for processing
Selected(log) == {e \in DOMAIN log : log[e].selected}

\* the entries a cycle loaded or reloaded to the end, notification included
Loaded(log) == {e \in DOMAIN log : log[e].outcome \in {"loaded", "reloaded"}}

\* what a cycle that ended in the state st leaves in the loader and in the
\* interpreter, and in the history
CycleEnds(tracked, st) ==
  /\ mod_entries' = st.entries
  /\ mod_entry_hashes' = st.hashes
  /\ sys_path' = st.spath
  /\ sys_modules' = st.smods
  /\ resources' = st.res
  /\ last' = [ran |-> TRUE, log |-> st.log, dropped |-> st.dropped,
              raised |-> st.raised, due |-> Due(tracked),
              before |-> mod_entry_hashes, again |-> last.ran,
              prev |-> [e \in Loaded(last.log) |-> last.log[e].events],
              reads |-> st.reads]
  /\ ever_selected' = ever_selected \cup Selected(st.log)
  /\ ever_loaded' = ever_loaded \cup Loaded(st.log)
  /\ UNCHANGED <<digests, calc>>

\* lines 138-178 with read_mod_entries: a cycle, during which the file system
\* does not change
Cycle ==
  LET tracked == mod_entries \cup Discovered
  IN  \E order \in Orders(tracked) :
      \E st \in {read_mod_entries(CycleState(tracked, mod_entry_hashes, sys_path,
                                    sys_modules, resources), order, 1)} :
        /\ CycleEnds(tracked, st)
        /\ hashed' = [e \in DOMAIN st.log |->
                        [node |-> Node(e.path), digest |-> st.log[e].newhash]]
                      @@ hashed
        /\ UNCHANGED <<fs, copy_fails, env_steps>>

\* scan_for_mods, called by whoever holds the loader
scan_for_mods ==
  /\ Cycle
  /\ UNCHANGED <<host, scan_timer>>

\* ------------------------------------------------------ on_app_running
\* (variant: the timer is made whether the scan returned or raised)
ArmTimer_Always(timer, raised) == "armed"

\* line 127 is reached when the call of line 123 has returned
ArmTimer(timer, raised) == IF raised THEN timer ELSE "armed"

\* on_app_running, called by the host once
on_app_running ==
  /\ initial_scan = "none"
  /\ Cycle
  /\ initial_scan' = IF last'.raised THEN "raised" ELSE "done"
  /\ scan_timer' = ArmTimer(scan_timer, last'.raised)
  /\ UNCHANGED <<paths_to_scan, added>>

\* the repeating timer of line 127 fires and calls scan_for_mods
timer_fires ==
  /\ scan_timer = "armed"
  /\ scan_for_mods

\* ------------------------------------------------------- add_scan_path
\* (variant: the path is only checked to exist)
add_scan_path_raises_ExistsOnly(path) ==
  IF PathKind(path) = "absent" THEN "FileNotFoundError" ELSE ""

\* lines 131-134: the exception add_scan_path raises for a path, "" for none
add_scan_path_raises(path) ==
  IF PathKind(path) = "absent" THEN "FileNotFoundError"
  ELSE IF PathKind(path) # "dir" THEN "NotADirectoryError"
  ELSE ""

add_scan_path(path) ==
  /\ Len(added) < MaxAdds
  /\ added' = Append(added, [path |-> path,
                             raised |-> add_scan_path_raises(path)])
  /\ paths_to_scan' = IF add_scan_path_raises(path) = ""
                      THEN Append(paths_to_scan, path)
                      ELSE paths_to_scan
  /\ last' = NoCycle
  /\ UNCHANGED <<fs, copy_fails, resources, env_steps, mod_entries,
                 mod_entry_hashes, sys_path, sys_modules, scan_timer,
                 initial_scan, ever_loaded, ever_selected, hashed, digests,
                 calc>>

\* ------------------------------------------ a path removed during a cycle
\* the bytes the walk has fed to the hasher when it has taken the first n
\* files: the files it comes to after the removal cannot be stat'd and are
\* passed over (lines 93-94)
PartialBytes(fl, n) ==
  WalkBytes([f \in FNames |->
               IF \E i \in 1..n : WalkOrder[i] = f THEN fl[f] ELSE 0], 1)

\* The iteration of the loop (lines 187-214) for an entry whose path, which
\* held node, is removed after the check of line 188: before
\* get_filetree_time_hash looks at the path (n = -1), or when the walk has
\* taken n files (for a single file: after the stat of line 96).
ReadRemoved(st, e, node, n) ==
  LET lasthash == RowOf(st.hashes, e)
      newhash == IF node.shape = "dir"
                 THEN HexDigest(PartialBytes(node.files, n))
                 ELSE HexDigest(Decimal(node.mtime))
  IN  \* is_dir() says no and the stat of line 96 raises FileNotFoundError;
      \* the row is the one setdefault has made
      IF n < 0
      THEN [st EXCEPT
              !.hashes = Put(@, e, lasthash),
              !.raised = TRUE,
              !.log = Put(@, e, LogRec(lasthash, EmptyHash, FALSE, "raised", <<>>))]
      ELSE IF ~ShouldProcess(e.type, lasthash, newhash)
      THEN [st EXCEPT
              !.hashes = Put(@, e, lasthash),
              !.log = Put(@, e, LogRec(lasthash, newhash, FALSE, "none", <<>>))]
      \* line 228: the path is not a directory any more
      ELSE IF e.type = "FOLDER"
      THEN [st EXCEPT
              !.hashes = Put(@, e, newhash),
              !.raised = TRUE,
              !.log = Put(@, e, LogRec(lasthash, newhash, TRUE, "raised", <<>>))]
      ELSE [st EXCEPT
              !.hashes = Put(@, e, newhash),
              !.log = Put(@, e, LogRec(lasthash, newhash, TRUE, "stub", <<>>))]

\* the cycle that takes the tracked entries in the order given, when the path
\* of the k-th is removed right after the loop has found it on disk
RemovedAt(tracked, order, k) ==
  \E st1 \in {read_mod_entries(CycleState(tracked, mod_entry_hashes, sys_path,
                                            sys_modules, resources),
                                 SubSeq(order, 1, k - 1), 1)} :
    /\ ~st1.raised
    /\ env_steps' = env_steps + 1
    /\ fs' = [fs EXCEPT ![order[k].path] = Absent]
    /\ UNCHANGED copy_fails
    /\ \E n \in -1..Len(WalkOrder) :
       \E st2 \in {Counted(ReadRemoved(st1, order[k], fs[order[k].path], n),
                            order[k])} :
       \E st \in {read_mod_entries(st2, order, k + 1)'} :
         /\ CycleEnds(tracked, st)
         /\ hashed' = [e \in DOMAIN st.log \ {order[k]} |->
                         [node |-> Node(e.path), digest |-> st.log[e].newhash]]
                       @@ hashed
    /\ UNCHANGED <<host, scan_timer>>

\* A cycle during which a child of the root is removed, right after the
\* loop of read_mod_entries has found it on disk: the entries before it are
\* read with the child there, those after it without.
scan_for_mods_removing(U) ==
  /\ env_steps < MaxEnv
  /\ LET tracked == mod_entries \cup Discovered
     IN  \E order \in Orders(tracked) :
         \E k \in DOMAIN order :
           /\ order[k].path \in U
           /\ Exists(order[k].path)
           /\ RemovedAt(tracked, order, k)

\* --------------------------------------------------------- environment
EnvStep(newfs) ==
  /\ env_steps < MaxEnv
  /\ env_steps' = env_steps + 1
  /\ fs' = newfs
  /\ last' = NoCycle
  /\ UNCHANGED <<copy_fails, resources, mod_entries, mod_entry_hashes,
                 sys_path, sys_modules, ever_selected, ever_loaded, hashed,
                 digests, calc, host, scan_timer>>

\* the children of the root that are made directories, and the files written
\* in them
Folders == {"a", "b", "c"}

\* the modification time a file gets when it is written: another one than it
\* has (the clock moves on; the values are reused in turn)
NextMTime(m) == (m % MaxMTime) + 1

\* what a file of a package may hold
Contents(f) ==
  CASE f = "manifest.json" -> ManifestKinds
    [] f = "main.py" -> ScriptKinds
    [] OTHER -> {"data"}

\* a file of a package directory is written (created, edited or touched):
\* it gets another modification time
WriteFile(U) ==
  \E p \in Folders \cap U, f \in FNames : \E c \in Contents(f) :
    /\ IsDir(p)
    /\ EnvStep([fs EXCEPT ![p].files[f] = NextMTime(@),
                          ![p].manifest = IF f = "manifest.json" THEN c ELSE @,
                          ![p].script = IF f = "main.py" THEN c ELSE @])

DeleteFile(U) ==
  \E p \in Folders \cap U, f \in FNames :
    /\ IsDir(p)
    /\ fs[p].files[f] > 0
    /\ EnvStep([fs EXCEPT ![p].files[f] = 0,
                          ![p].manifest = IF f = "manifest.json" THEN "none" ELSE @,
                          ![p].script = IF f = "main.py" THEN "none" ELSE @])

\* a child of the root is removed, with all it holds
Remove(U) ==
  \E p \in U :
    /\ Exists(p)
    /\ EnvStep([fs EXCEPT ![p] = Absent])

\* a single file appears at a free path, or an existing one is written
PutFile(U) ==
  \E p \in U \ Folders :
    /\ ~IsDir(p)
    /\ EnvStep([fs EXCEPT ![p] = File(NextMTime(fs[p].mtime))])

\* an empty directory appears at a free path
MakeDir(U) ==
  \E p \in Folders \cap U :
    /\ ~Exists(p)
    /\ EnvStep([fs EXCEPT ![p] = Dir(NoFiles, "none", "none")])

\* an empty directory appears at a free path, whatever its name: where a
\* file "x.py" was there may be a directory "x.py"
MakeDirAt(U) ==
  \E p \in U :
    /\ ~Exists(p)
    /\ EnvStep([fs EXCEPT ![p] = Dir(NoFiles, "none", "none")])

\* the manifest of a package is written anew, complete: with another
\* author, or naming another directory for the textures
EditManifest(U) ==
  \E p \in Folders \cap U, mk \in Complete :
    /\ IsDir(p)
    /\ fs[p].files["manifest.json"] > 0
    /\ fs[p].manifest # mk
    /\ EnvStep([fs EXCEPT ![p].files["manifest.json"] = NextMTime(@),
                          ![p].manifest = mk])

\* copying starts or stops failing
ToggleCopy ==
  /\ env_steps < MaxEnv
  /\ env_steps' = env_steps + 1
  /\ copy_fails' = ~copy_fails
  /\ last' = NoCycle
  /\ UNCHANGED <<fs, resources, mod_entries, mod_entry_hashes, sys_path,
                 sys_modules, ever_selected, ever_loaded, hashed, digests, calc,
                 host, scan_timer>>

\* ------------------------------------------------------- specification
\* a complete package: manifest, entry script and one texture
FullMod(sk) == Dir([f \in FNames |-> 1], "ok", sk)

\* The loader is constructed; the root holds a complete package, a plugin
\* and a packed mod.
Children == {"a", "x.py", "k.bsmod"}

InitFS ==
  [p \in Paths |->
     CASE p = "a" -> FullMod("good")
       [] p \in {"x.py", "k.bsmod"} -> File(1)
       [] OTHER -> Absent]

\* the scan list as the module sets it
MOD_PATHS == <<"user">>

\* the loader as __init__ leaves it
Constructed ==
  /\ copy_fails = FALSE
  /\ env_steps = 0
  /\ mod_entries = {}
  /\ mod_entry_hashes = <<>>
  /\ sys_path = <<>>
  /\ sys_modules = <<>>
  /\ resources = <<>>
  /\ paths_to_scan = MOD_PATHS
  /\ scan_timer = "None"
  /\ initial_scan = "none"
  /\ added = <<>>
  /\ ever_loaded = {}
  /\ last = NoCycle
  /\ ever_selected = {}
  /\ hashed = <<>>
  /\ digests = <<>>
  /\ calc = <<>>

Init == fs = InitFS /\ Constructed

\* the changes of the environment to the children U of the root
Env(U) ==
  \/ WriteFile(U)
  \/ DeleteFile(U)
  \/ Remove(U)
  \/ PutFile(U)
  \/ MakeDir(U)
  \/ ToggleCopy

Next ==
  \/ scan_for_mods
  \/ Env(Children)

Spec == Init /\ [][Next]_vars

\* ---------------------------------------------- a root with archives
\* The root holds a complete package, a packed mod and a compressed one.
ArchiveChildren == {"a", "k.bsmod", "z.zip"}

ArchiveInit ==
  /\ fs = [p \in Paths |->
             CASE p = "a" -> FullMod("good")
               [] p \in {"k.bsmod", "z.zip"} -> File(1)
               [] OTHER -> Absent]
  /\ Constructed

ArchiveNext ==
  \/ scan_for_mods
  \/ Env(ArchiveChildren)

ArchiveSpec == ArchiveInit /\ [][ArchiveNext]_vars

\* ------------------------------------------ the loader run by the app
\* The cycles are those of on_app_running and of the timer it makes.
AppNext ==
  \/ on_app_running
  \/ timer_fires
  \/ Env(Children)

AppSpec == Init /\ [][AppNext]_vars

\* ------------------------------------- copies that fail for a while
\* The root holds a complete package, a plugin and a packed mod.  No file
\* of the package is touched; copying starts and stops failing, and the
\* single files come and go.  The timer goes on calling scan_for_mods.
MigrateChildren == {"x.py", "k.bsmod"}

MigrateNext ==
  \/ scan_for_mods
  \/ ToggleCopy
  \/ Remove(MigrateChildren)
  \/ PutFile(MigrateChildren)

MigrateSpec == Init /\ [][MigrateNext]_vars /\ WF_vars(scan_for_mods)

\* --------------------------------------- paths that change their kind
\* The root holds a complete package, a plugin and a packed mod; the files
\* are removed, and files or directories of the same names are made.
KindChildren == {"x.py", "k.bsmod"}

KindNext ==
  \/ scan_for_mods
  \/ Remove(KindChildren)
  \/ PutFile(KindChildren)
  \/ MakeDirAt(KindChildren)

KindSpec == Init /\ [][KindNext]_vars

\* ------------------------------------------- roots added to the scan list
\* The root holds a plugin, and the directory "extra" a complete package;
\* they are removed and put back.
RootsChildren == {"c", "x.py"}

RootsInit ==
  /\ fs = [p \in Paths |->
             CASE p = "c" -> FullMod("good")
               [] p = "x.py" -> File(1)
               [] OTHER -> Absent]
  /\ Constructed

RootsNext ==
  \/ scan_for_mods
  \/ \E path \in ScanPathArgs : add_scan_path(path)
  \/ Remove(RootsChildren)
  \/ PutFile(RootsChildren)
  \/ MakeDir(RootsChildren)

RootsSpec == RootsInit /\ [][RootsNext]_vars

\* ------------------------------------- removals while a cycle runs
\* The root holds a complete package, a plugin and a packed mod; the package
\* and the plugin change and may be removed, also while a cycle runs.
RaceChildren == {"a", "x.py"}

RaceNext ==
  \/ scan_for_mods
  \/ scan_for_mods_removing(RaceChildren)
  \/ Env(RaceChildren)

RaceSpec == Init /\ [][RaceNext]_vars

\* ------------------------------------------- the digest, on its own
\* get_filetree_time_hash applied to two package directories and to a single
\* file, of any content.  Some modification times have more digits than
\* others.
HashMTimes == {1, 2, 12}

Tree(fl) ==
  Dir(fl, IF fl["manifest.json"] > 0 THEN "ok" ELSE "none",
          IF fl["main.py"] > 0 THEN "good" ELSE "none")

HashInit ==
  /\ \E ta, tb \in [FNames -> {0} \cup HashMTimes], m \in HashMTimes :
       fs = [p \in Paths |->
               CASE p = "a" -> Tree(ta)
                 [] p = "b" -> Tree(tb)
                 [] p = "x.py" -> File(m)
                 [] OTHER -> Absent]
  /\ Constructed

HashAll ==
  /\ digests = <<>>
  /\ digests' = [p \in {"a", "b", "x.py"} |->
                   get_filetree_time_hash(CHOOSE e \in Classify(p) : TRUE)]
  /\ UNCHANGED <<fs, copy_fails, resources, env_steps, mod_entries,
                 mod_entry_hashes, sys_path, sys_modules, last, ever_selected,
                 ever_loaded, hashed, host, scan_timer, calc>>

HashSpec == HashInit /\ [][HashAll]_vars

\* ------------------------------------------ _migrate_files, on its own
\* what a source directory may list: files and directories, of these names
AssetNames == {"icon.png", "old.dds", "beep.ogg", "readme.txt"}

\* Path.suffix
AssetSuffix(n) ==
  CASE n = "icon.png" -> ".png"
    [] n = "old.dds" -> ".dds"
    [] n = "beep.ogg" -> ".ogg"
    [] OTHER -> ".txt"

\* the allow-lists of lines 257, 261 and 268
AllowedFiletypes ==
  [textures |-> {".png", ".dds", ".ktx"},
   audio |-> {".ogg"},
   meshes |-> {".bob", ".cob"}]

ResourceKinds == DOMAIN AllowedFiletypes

\* the source directories: what is there under each name ("none", "file"
\* or "dir"), or no directory at all
AssetSources ==
  [shape : {"dir"}, items : [AssetNames -> {"none", "file", "dir"}]]
  \cup {[shape |-> "absent", items |-> [n \in AssetNames |-> "none"]]}

\* os.listdir(source): the names that are there, in any order
Listings(src) == Orders({n \in AssetNames : src.items[n] # "none"})

\* the loop of lines 328-331 from the i-th name of the listing on: a name
\* whose suffix is allowed is handed to shutil.copy, which raises
\* IsADirectoryError when a directory is at that name
RECURSIVE copy_listed(_, _, _, _, _)
copy_listed(src, listing, i, allowed, d) ==
  IF i > Len(listing) \/ d.raised THEN d
  ELSE IF AssetSuffix(listing[i]) \notin allowed
  THEN copy_listed(src, listing, i + 1, allowed, d)
  ELSE IF src.items[listing[i]] = "dir"
  THEN [d EXCEPT !.raised = TRUE]
  ELSE copy_listed(src, listing, i + 1, allowed,
                   [d EXCEPT !.files = @ \cup {listing[i]}])

\* _migrate_files into a destination folder that holds the files dest (and
\* is made when it is not there): nothing is done for a source that does
\* not exist
migrate_source(src, listing, allowed, dest) ==
  IF src.shape = "absent"
  THEN [made |-> FALSE, files |-> dest, raised |-> FALSE]
  ELSE copy_listed(src, listing, 1, allowed,
                   [made |-> TRUE, files |-> dest, raised |-> FALSE])

\* one call of _migrate_files for a resource kind, into an empty destination
migrate_call ==
  /\ calc = <<>>
  /\ \E src \in AssetSources, kind \in ResourceKinds :
     \E listing \in Listings(src) :
       calc' = [fn |-> "_migrate_files", source |-> src, listing |-> listing,
                kind |-> kind,
                out |-> migrate_source(src, listing, AllowedFiletypes[kind], {})]
  /\ UNCHANGED <<fs, copy_fails, resources, env_steps, mod_entries,
                 mod_entry_hashes, sys_path, sys_modules, last, ever_selected,
                 ever_loaded, hashed, host, scan_timer, digests>>

AssetSpec == Init /\ [][migrate_call]_vars

\* --------------------------------------------- a root with two packages
\* The root holds two complete packages, of the same name and author.  Their
\* manifests are written anew, their files are deleted, and the packages are
\* removed.
TwoChildren == {"a", "b"}

TwoInit ==
  /\ fs = [p \in Paths |->
             IF p \in TwoChildren THEN FullMod("good") ELSE Absent]
  /\ Constructed

TwoNext ==
  \/ scan_for_mods
  \/ EditManifest(TwoChildren)
  \/ DeleteFile(TwoChildren)
  \/ Remove(TwoChildren)

TwoSpec == TwoInit /\ [][TwoNext]_vars

\* ------------------------------------------- a root with files of all kinds
\* The root holds a complete package, a .rar file and a text file; files
\* and directories of the names of ClassChildren are made and removed.
ClassChildren == {"x.py", "k.bsmod", "z.zip", "t.rar", "n.txt"}

ClassInit ==
  /\ fs = [p \in Paths |->
             CASE p = "a" -> FullMod("good")
               [] p \in {"t.rar", "n.txt"} -> File(1)
               [] OTHER -> Absent]
  /\ Constructed

ClassNext ==
  \/ scan_for_mods
  \/ Remove(ClassChildren)
  \/ PutFile(ClassChildren)
  \/ MakeDirAt(ClassChildren)

ClassSpec == ClassInit /\ [][ClassNext]_vars

\* ------------------------------- _generate_mod_name_hash, on its own
\* the names and the authors a manifest may give; some hold the character
\* "&"
Titles == {<<"a">>, <<"b">>, <<"c">>, <<"a", "&", "b">>, <<"b", "&", "c">>}

\* _generate_mod_name_hash applied to the metadata of two manifests
name_hash_call ==
  /\ calc = <<>>
  /\ \E n1, a1, n2, a2 \in Titles :
       calc' = [fn |-> "_generate_mod_name_hash",
                metadata |-> <<[name |-> n1, author |-> a1],
                               [name |-> n2, author |-> a2]>>,
                out |-> <<generate_mod_name_hash(n1, a1),
                          generate_mod_name_hash(n2, a2)>>]
  /\ UNCHANGED <<fs, copy_fails, resources, env_steps, mod_entries,
                 mod_entry_hashes, sys_path, sys_modules, last, ever_selected,
                 ever_loaded, hashed, host, scan_timer, digests>>

IdSpec == Init /\ [][name_hash_call]_vars

\* ================================================================ claims
Updateable == {e \in Entries : e.type \in {"PLUGIN", "FOLDER"}}
NonUpdateable == Entries \ Updateable
Reached == DOMAIN last.log

\* the processing of an entry failed in the last cycle: an exception was
\* raised, or manifest.json is there and could not be parsed
Failed(e) ==
  \/ last.log[e].outcome = "raised"
  \/ /\ last.log[e].outcome = "nomanifest"
     /\ fs[e.path].manifest = "bad"

\* C1: the digest recorded for an entry is replaced by the new digest only
\* after the entry was processed successfully; when the processing fails the
\* recorded digest is what it was before the cycle.
C1_DigestKeptOnFailure ==
  \A e \in Reached :
    Failed(e) => mod_entry_hashes[e] = last.log[e].lasthash

\* C2: a failure of one entry is contained: the cycle returns normally and
\* every entry that was due when the cycle began has been processed in it.
C2_FailureContained ==
  last.ran =>
    /\ ~last.raised
    /\ \A e \in last.due : e \in Reached /\ last.log[e].selected

\* C3: a Folder entry whose directory holds no manifest.json keeps the digest
\* the catalog had for it before the cycle (the empty one, or the previous
\* one), and its processing does not raise.
C3_NoManifestKeepsDigest ==
  \A e \in Reached :
    (e.type = "FOLDER" /\ IsDir(e.path) /\ fs[e.path].files["manifest.json"] = 0)
      => /\ mod_entry_hashes[e] = RowOf(last.before, e)
         /\ last.log[e].outcome # "raised"

\* C4: after a cycle that found the path of a tracked entry missing, the
\* catalog holds no row for that entry.
C4_DroppedRowRemoved ==
  \A e \in last.dropped : e \notin DOMAIN mod_entry_hashes

Count(events, op) == Cardinality({i \in 1..Len(events) : events[i].op = op})

\* the events are those of a first load: the notification says "loaded"
FirstLoad(events) ==
  \E i \in 1..Len(events) : events[i] = Ev("notify", "loaded")

C6_NonUpdateableOnce ==
  /\ [](\A e \in NonUpdateable :
          e \in DOMAIN mod_entry_hashes => e \in ever_selected)
  /\ [][\A e \in NonUpdateable :
          (e \in DOMAIN last'.log /\ last'.log[e].selected)
            => e \notin ever_selected]_vars

\* a cycle has passed over a packed and a compressed entry that were
\* selected before and whose digests have changed since
C6_Witness ==
  \A t \in {"PACKED", "COMPRESSED"} :
    \E e \in Reached :
      /\ e.type = t
      /\ e \in ever_selected
      /\ ~last.log[e].selected
      /\ last.log[e].newhash # last.log[e].lasthash

\* C7: a Folder or Plugin entry that the cycle finds on disk is selected if
\* and only if the digest just computed differs from the one recorded (the
\* empty one of a new row differs from every digest).  The digest is computed
\* for every tracked entry that is on disk, in a cycle that runs to its end.
C7_SelectedIffDigestDiffers ==
  /\ \A e \in Reached :
       e \in Updateable =>
         /\ last.log[e].selected <=> (last.log[e].newhash # last.log[e].lasthash)
         /\ last.log[e].lasthash = RowOf(last.before, e)
         /\ last.log[e].newhash = get_filetree_time_hash(e)
         /\ ~last.log[e].lasthash.set => last.log[e].selected
  /\ (last.ran /\ ~last.raised) =>
       /\ Reached = mod_entries
       /\ \A e \in Updateable \cap Discovered : e \in Reached

C7_Witness ==
  /\ \E e \in Reached :
       e \in Updateable /\ last.log[e].selected /\ last.log[e].lasthash.set
  /\ \E e \in Reached :
       e \in Updateable /\ ~last.log[e].selected

HashDone == digests # <<>>

\* the two trees differ in the modification time of exactly the file f, which
\* both hold
TouchedOnly(f) ==
  /\ fs["a"].files[f] > 0 /\ fs["b"].files[f] > 0
  /\ fs["a"].files[f] # fs["b"].files[f]
  /\ \A g \in FNames \ {f} : fs["a"].files[g] = fs["b"].files[g]

\* C9: changing the modification time of one file of a folder, at the root or
\* below it, and nothing else, changes the digest of the folder, so that a
\* cycle that has the old digest on record selects the entry.
C9_TouchChangesDigest ==
  HashDone =>
    \A f \in FNames :
      TouchedOnly(f) =>
        /\ digests["a"] # digests["b"]
        /\ ShouldProcess("FOLDER", digests["a"], digests["b"])

C9_Witness == HashDone /\ TouchedOnly("tex/icon.png") /\ fs["a"].files["main.py"] > 0

\* the (file name, modification time) pairs of a tree, in the order of the walk
NameTimePairs(p) ==
  SelectSeq([i \in 1..Len(WalkOrder) |->
               <<WalkOrder[i], fs[p].files[WalkOrder[i]]>>],
            LAMBDA x : x[2] > 0)

\* the modification times of a tree, in the order of the walk
TimeSeq(p) ==
  SelectSeq([i \in 1..Len(WalkOrder) |-> fs[p].files[WalkOrder[i]]],
            LAMBDA m : m > 0)

SingleFileDigest == digests["x.py"] = HexDigest(Decimal(fs["x.py"].mtime))

EqualWidth ==
  \A p, q \in {"a", "b"}, f, g \in FNames :
    (fs[p].files[f] > 0 /\ fs[q].files[g] > 0)
      => (fs[p].files[f] < 10 <=> fs[q].files[g] < 10)

RemovedInCycle == {e \in Reached : ~Exists(e.path)}

\* C11: when the path of an entry is removed after the cycle has found it on
\* disk, get_filetree_time_hash still returns a digest for the entry and the
\* cycle runs to its end.
C11_RemovalTolerated ==
  last.ran =>
    \A e \in RemovedInCycle :
      /\ last.log[e].newhash.set
      /\ ~last.raised

\* C12: add_scan_path raises when the path does not exist or is not a
\* directory and then leaves the scan list as it was; else it appends the
\* path at the end of the list.  It changes nothing else of the loader, and
\* every cycle tracks and reads the children of every root of the list.
C12_AddScanPath ==
  /\ [][Len(added') > Len(added) =>
          LET call == added'[Len(added')]
          IN  /\ (call.raised # "") <=> (PathKind(call.path) # "dir")
              /\ paths_to_scan' = IF call.raised # "" THEN paths_to_scan
                                  ELSE Append(paths_to_scan, call.path)
              /\ UNCHANGED <<mod_entries, mod_entry_hashes, sys_path,
                             sys_modules, resources, scan_timer>>]_vars
  /\ [](last.ran =>
          \A p \in Paths :
            RootOf(p) \in Range(paths_to_scan) =>
              /\ Classify(p) \subseteq mod_entries
              /\ ~last.raised => Classify(p) \subseteq Reached)

\* a call has raised, another has added the directory "extra", and a cycle
\* has loaded the package it holds
C12_Witness ==
  /\ \E i \in DOMAIN added : added[i].raised = "NotADirectoryError"
  /\ \E i \in DOMAIN added : added[i].path = "extra" /\ added[i].raised = ""
  /\ paths_to_scan = <<"user", "extra">>
  /\ ModEntry("c", "FOLDER") \in Loaded(last.log)

\* C13: after every cycle the tracked set holds at most one entry for a
\* path, the one of the kind that is at the path now: the entry of a kind
\* the path had before is dropped.
C13_OneEntryPerPath ==
  last.ran =>
    /\ \A e1, e2 \in mod_entries : e1.path = e2.path => e1 = e2
    /\ \A e \in mod_entries : Classify(e.path) = {e}

\* the processing of the entry got as far as the code loader (lines 278-284)
CodeLoaded(log, e) == e.type = "FOLDER" /\ Count(log[e].events, "import") > 0

\* C14: a processing that comes to the code loader makes a fresh import when
\* the entry module was not loaded before the cycle, and reloads the loaded
\* module when it was; either way the entry script is run once.
C14_ExecOncePerProcessing ==
  [][\A e \in DOMAIN last'.log :
       CodeLoaded(last'.log, e) =>
         /\ Count(last'.log[e].events, "exec") = 1
         /\ Count(last'.log[e].events, "reload") = 0
              <=> "main" \notin DOMAIN sys_modules]_vars

\* the cycle processed the package to the end: it was selected, its manifest
\* was read and nothing raised
Succeeded(r) == r.selected /\ r.outcome \notin {"raised", "nomanifest"}

\* C15: a cycle notifies of a package once when it processed it to the end
\* and not at all otherwise; the notification says "loaded" when no cycle
\* before had processed the package to the end, and "reloaded" when one had.
C15_NotificationTellsFirstLoad ==
  [][\A e \in DOMAIN last'.log :
       e.type = "FOLDER" =>
         /\ Count(last'.log[e].events, "notify")
              = IF Succeeded(last'.log[e]) THEN 1 ELSE 0
         /\ Succeeded(last'.log[e]) =>
              (FirstLoad(last'.log[e].events) <=> e \notin ever_loaded)]_vars

\* the package directories some cycle has loaded, or has put on sys.path
PackagesLoaded == {e.path : e \in ever_loaded} \cup Range(sys_path)

\* C16: the loader has added to sys.path at most as many entries as there
\* are package directories it has loaded: loading a package again adds no
\* entry.
C16_SearchPathBounded == Len(sys_path) <= Cardinality(PackagesLoaded)

\* C17: a package whose manifest.json is there and cannot be used (it is
\* not JSON, or it is not an object with the keys the loader reads) is
\* passed over when it is selected: nothing is copied or imported, nothing
\* raises, and the cycle reads every entry that was due.
C17_UnusableManifestSkipped ==
  \A e \in Reached :
    (/\ e.type = "FOLDER" /\ IsDir(e.path)
     /\ fs[e.path].manifest \in {"bad", "nokeys"}
     /\ last.log[e].selected)
      => /\ last.log[e].outcome = "nomanifest"
         /\ last.log[e].events = <<>>
         /\ ~last.raised
         /\ \A d \in last.due : d \in Reached

\* C18: on_app_running runs one cycle to its end and makes the timer only
\* then: the timer is made in the step of that first cycle and in no other,
\* and every other cycle comes after the first one has ended.
C18_ScanBeforeTimer ==
  /\ [](scan_timer = "armed" => initial_scan = "done")
  /\ [][scan_timer' # scan_timer =>
          /\ scan_timer = "None" /\ scan_timer' = "armed"
          /\ initial_scan = "none" /\ initial_scan' = "done"
          /\ last'.ran /\ ~last'.raised]_vars
  /\ [][last'.ran =>
          \/ initial_scan = "none" /\ initial_scan' # "none"
          \/ initial_scan = "done" /\ scan_timer = "armed"]_vars

\* the first cycle has ended, the timer is there and has fired
C18_Witness ==
  /\ scan_timer = "armed"
  /\ initial_scan = "done"
  /\ env_steps = 0
  /\ last.ran /\ last.again
  /\ ModEntry("a", "FOLDER") \in Reached

\* the files of the package directory p that are of an allowed type and are
\* now in the folder of the package in the resource folders
Migrated(p) ==
  {f \in Below :
     /\ fs[p].files[f] > 0
     /\ [folder |-> generate_mod_name_hash(ManifestName, ManifestAuthor),
         file |-> f] \in DOMAIN resources}

AllMigrated(p) == Migrated(p) = {f \in Below : fs[p].files[f] > 0}

\* C20: when a migration has copied some of the allowed files of a package
\* and not the others, and copying works again, then with no file of the
\* package touched a later cycle migrates the package again: all its allowed
\* files come to be in the resource folders (unless copying fails anew).
C20_MigrationRetried ==
  (Migrated("a") # {} /\ ~AllMigrated("a") /\ ~copy_fails)
    ~> (AllMigrated("a") \/ copy_fails)


\* C21: for each resource kind, one migration copies every source file that
\* has an allowed extension and copies no other file: after a migration into
\* an empty destination, the files of the destination are the immediate
\* files of the source whose extension is allowed.
C21_AllowedFilesCopied ==
  (calc # <<>> /\ calc.fn = "_migrate_files") =>
    calc.out.files =
      {n \in AssetNames : /\ calc.source.items[n] = "file"
                          /\ AssetSuffix(n) \in AllowedFiletypes[calc.kind]}


\* the Folder entry e copied the file f in the last cycle
Copied(e, f) ==
  /\ e \in DOMAIN last.log
  /\ \E i \in DOMAIN last.log[e].events : last.log[e].events[i] = Ev("copy", f)

\* the resource folder the identity of the package at p names
FolderOf(p) == generate_mod_name_hash(metadata(p).name, metadata(p).author)

KindOf(shape, suffix) ==
  IF shape = "dir" THEN "FOLDER"
  ELSE IF shape = "file" /\ suffix = ".py" THEN "PLUGIN"
  ELSE IF shape = "file" /\ suffix = ".bsmod" THEN "PACKED"
  ELSE IF shape = "file" /\ suffix \in {".zip", ".rar"} THEN "COMPRESSED"
  ELSE "none"

\* a step that is a scan cycle
CycleStep == last'.ran /\ fs' = fs

\* C23: the kind of an entry is told from the shape and the suffix of the
\* child alone: a directory is a Folder, a .py file a Plugin, a .bsmod file
\* Packed, a .zip or .rar file Compressed; a file of any other suffix gets
\* no entry and is neither tracked nor given a row in the catalog; what lies
\* deeper than the immediate children of a root is never tracked.
C23_Classification ==
  [][CycleStep =>
       /\ \A p \in Paths :
            (RootOf(p) \in Range(paths_to_scan)
               /\ KindOf(fs[p].shape, Suffix(p)) # "none")
              => ModEntry(p, KindOf(fs[p].shape, Suffix(p))) \in mod_entries'
       /\ \A e \in mod_entries' \ mod_entries :
            /\ e.path \in Paths
            /\ RootOf(e.path) \in Range(paths_to_scan)
            /\ e.type = KindOf(fs[e.path].shape, Suffix(e.path))
       /\ DOMAIN mod_entry_hashes' \subseteq
            mod_entries' \cup DOMAIN mod_entry_hashes]_vars

\* a cycle has run on a root that holds a directory named like a plugin, a
\* .rar file, a file of another suffix and a package with its script: the
\* first is tracked as a Folder, the second as Compressed, the others are
\* not tracked
C23_Witness ==
  /\ last.ran
  /\ IsDir("x.py") /\ ModEntry("x.py", "FOLDER") \in mod_entries
  /\ IsFile("t.rar") /\ ModEntry("t.rar", "COMPRESSED") \in mod_entries
  /\ IsFile("n.txt") /\ HasScript("a")
  /\ \A e \in mod_entries \cup DOMAIN mod_entry_hashes :
       e.path \notin {"n.txt", "a/main.py"}


\* the places of a sequence of events where one of the operations ops is
At(events, ops) == {i \in DOMAIN events : events[i].op \in ops}

\* the files the migration of the package at p is to copy
ToCopy(p) == {f \in Below : fs[p].files[f] > 0 /\ source_exists(p, f)}

\* C24: a Folder package is handled in this order: the manifest is read, the
\* assets are migrated, the entry script is imported or reloaded, the user is
\* notified.  The script runs only when every asset has been migrated, and
\* the notification comes last.  With no manifest nothing is done: no
\* migration, no import, nothing is put on the search path, no notification.
C24_StepsInOrder ==
  [][CycleStep =>
       \A e \in Selected(last'.log) :
         e.type = "FOLDER" =>
           LET r == last'.log[e]
               mig == At(r.events, {"migrate", "copy"})
               code == At(r.events, {"import", "exec", "reload"})
               note == At(r.events, {"notify"})
           IN  /\ \A i \in mig, j \in code \cup note : i < j
               /\ \A i \in code, j \in note : i < j
               /\ code # {} =>
                    \A f \in ToCopy(e.path) :
                      \E i \in mig : r.events[i] = Ev("copy", f)
               /\ note # {} <=> r.outcome \in {"loaded", "reloaded"}
               /\ (get_manifest_data(e.path) = "None") =>
                    /\ r.outcome = "nomanifest"
                    /\ r.events = <<>>
                    /\ (Selected(last'.log) = {e} =>
                          UNCHANGED <<sys_path, sys_modules, resources>>)]_vars

\* a package was loaded with both its assets and its script, and notified
C24_Witness ==
  /\ last.ran
  /\ \E e \in Loaded(last.log) :
       /\ ToCopy(e.path) = Below
       /\ At(last.log[e].events, {"copy"}) # {}
       /\ At(last.log[e].events, {"exec"}) # {}
       /\ At(last.log[e].events, {"notify"}) # {}


Archives == {e \in Entries : e.type \in {"PACKED", "COMPRESSED"}}

\* C25: Packed and Compressed entries are tracked, and that is all: the
\* processing of such an entry imports and reloads nothing, copies nothing,
\* notifies nobody, and a cycle that selects no Folder entry leaves the search
\* path, the modules and the resource folders as they were.
C25_ArchivesDoNothing ==
  [][CycleStep =>
       /\ \A e \in Archives :
            (IsFile(e.path) /\ e.type = KindOf("file", Suffix(e.path)))
              => e \in mod_entries'
       /\ \A e \in Archives \cap DOMAIN last'.log : last'.log[e].events = <<>>
       /\ (\A e \in Selected(last'.log) : e.type # "FOLDER")
            => UNCHANGED <<sys_path, sys_modules, resources>>]_vars

\* a cycle selected a packed and a compressed file and no package, when a
\* package had been loaded before
C25_Witness ==
  /\ last.ran
  /\ ModEntry("k.bsmod", "PACKED") \in Selected(last.log)
  /\ ModEntry("z.zip", "COMPRESSED") \in Selected(last.log)
  /\ \A e \in Selected(last.log) : e.type # "FOLDER"
  /\ last.log[ModEntry("k.bsmod", "PACKED")].outcome = "stub"
  /\ sys_path # <<>>


\* the entries the last cycle came to that lead to the child p and have the
\* kind t
ReadFor(p, t) == {e \in DOMAIN last.reads : Real(e.path) = p /\ e.type = t}

\* C26 (as stated): with the same root registered twice, or two roots that
\* list the same child, each package is hashed and processed at most once in
\* a scan cycle.
C26_OncePerPackage ==
  last.ran =>
    \A p \in Paths, t \in ModEntryType :
      /\ Cardinality(ReadFor(p, t)) <= 1
      /\ \A e \in ReadFor(p, t) : last.reads[e] = 1

\* C26 (amended): the tracked entries are a set keyed by path and kind, so
\* each tracked entry is hashed and processed at most once in a scan cycle,
\* however often the scan list holds its root; a child that is listed under
\* two different paths has one entry for each path.
C26_OncePerEntry ==
  last.ran =>
    /\ \A e \in DOMAIN last.reads : last.reads[e] = 1
    /\ \A p \in Paths, t \in ModEntryType :
         Cardinality(ReadFor(p, t)) <=
           Cardinality({RootOf(e.path) : e \in ReadFor(p, t)})

\* the root "extra" is in the scan list twice, and a cycle has loaded the
\* package in it, coming to its entry once
C26_Witness ==
  /\ last.ran
  /\ paths_to_scan = <<"user", "extra", "extra">>
  /\ ModEntry("c", "FOLDER") \in Loaded(last.log)
  /\ last.reads[ModEntry("c", "FOLDER")] = 1


\* C27: every Folder package has its own entry script executed when it is
\* loaded for the first time, also when two packages both call it main.py.
C27_OwnScriptOnFirstLoad ==
  last.ran =>
    \A e \in DOMAIN last.log :
      (/\ e.type = "FOLDER"
       /\ last.log[e].outcome = "loaded"
       /\ HasScript(e.path))
        => \E i \in DOMAIN last.log[e].events :
             last.log[e].events[i] = Ev("exec", e.path)


\* C28: the identity hash tells apart any two packages that differ in name
\* or in author (the hash function taken to be collision free), also when a
\* name or an author holds the character "&".
C28_IdentityInjective ==
  (calc # <<>> /\ calc.fn = "_generate_mod_name_hash") =>
    (calc.out[1] = calc.out[2] => calc.metadata[1] = calc.metadata[2])


\* C29: migration adds files to the resource folders and overwrites files
\* there, and deletes none: a file once copied stays, also when it is removed
\* from the source, when the manifest names another source directory and when
\* the package is deleted.
C29_ResourcesOnlyGrow ==
  [][DOMAIN resources \subseteq DOMAIN resources']_vars

\* the texture that the package a copied is in the resource folder after a
\* cycle that dropped a, which was removed, and reloaded b, whose
\* manifest now names a textures directory that is not there
C29_Witness ==
  /\ last.ran
  /\ ~Exists("a")
  /\ ModEntry("a", "FOLDER") \in last.dropped
  /\ fs["b"].manifest = "notex"
  /\ ModEntry("b", "FOLDER") \in Loaded(last.log)
  /\ [folder |-> FolderOf("b"), file |-> "tex/icon.png"] \in DOMAIN resources
  /\ resources[[folder |-> FolderOf("b"), file |-> "tex/icon.png"]] = "a"


\* C30: the timer is made only when the scan of on_app_running has returned
\* without raising; when it raised, _scan_timer stays None and no further
\* cycle runs (the host does not call scan_for_mods itself here): the
\* loader's state is what that scan left.
C30_NoTimerAfterFailedScan ==
  /\ [](initial_scan = "raised" => scan_timer = "None")
  /\ [](initial_scan = "done" => scan_timer = "armed")
  /\ [][initial_scan = "raised" =>
          /\ ~last'.ran
          /\ UNCHANGED <<mod_entries, mod_entry_hashes, sys_path, sys_modules,
                         resources, scan_timer, initial_scan>>]_vars

\* the scan of on_app_running raised, there is no timer, and the file system
\* has changed since
C30_Witness ==
  /\ initial_scan = "raised"
  /\ scan_timer = "None"
  /\ ~last.ran
  /\ env_steps = MaxEnv
  /\ ModEntry("a", "FOLDER") \in DOMAIN mod_entry_hashes

====
